---- MODULE Spec2Model ----
(***************************************************************************)
(* Model of tg-auto-channels: the posting policy (should_post), the        *)
(* posting orchestrator (create_and_send_post), the history repository     *)
(* (record_post, last_sent_post_time) and the scheduler tick               *)
(* (SchedulerService.run_tick driven by SchedulerRunner's interval job).   *)
(* The news generator (NewsDigestGenerator.generate from the collected     *)
(* candidates on) and the link extraction from the history are modelled on *)
(* texts kept as sequences of characters.                                  *)
(*                                                                         *)
(* Time is counted in clock units; UnitsPerHour of them make an hour.      *)
(* The program's clock unit is the microsecond (datetime/timedelta         *)
(* resolution); the model keeps the same arithmetic at a coarser unit.     *)
(* Two levels of a time of day are kept apart: the whole hours, which      *)
(* stand for its hour, minute and second fields, and the units within the  *)
(* hour, which stand for its microsecond field.                            *)
(* One timer fire of the interval job advances the clock by one unit.      *)
(***************************************************************************)
EXTENDS Integers, Sequences, FiniteSets, TLC

VARIABLES
    channels,         \* rows of the channels table, in list_channels order
    image_generator,  \* TRUE iff an ImageGenerationService was constructed
    history,          \* committed rows of the posts table
    clock,            \* wall clock, in clock units
    pc,               \* per job instance: position inside run_tick
    tnow,             \* per job instance: run_tick's local `now`
    idx,              \* per job instance: position of the for loop
    pending,          \* per job instance: rows flushed in the open session
    run,              \* per job instance: the current create_and_send_post call
    evaluated,        \* per job instance: channels should_post was called for
    ran,              \* per job instance: channels create_and_send_post was called for
    decision,         \* the last should_post call and its result
    delivered,        \* messages the publisher accepted
    news              \* the news generator's current collect-and-select call

vars == <<channels, image_generator, history, clock, pc, tnow, idx, pending,
          run, evaluated, ran, decision, delivered, news>>

(***************************************************************************)
(* Bounds                                                                  *)
(***************************************************************************)
NumChannels == 2
MaxTime == 3
UnitsPerHour == 2
MaxFreq == 9
MaxSlots == 2

(***************************************************************************)
(* Program constants                                                       *)
(***************************************************************************)
HoursPerDay == 24

\* variant: the job added with max_instances=2
MaxInstancesTwo == 1 + 1

\* add_job(run_tick, "interval", ...) passes no max_instances: the job runs
\* with the scheduler's default of one concurrent instance.
MaxInstances == 1

Day == HoursPerDay * UnitsPerHour

None == -1
NoneStr == "None"

Slots == 1..MaxSlots

(***************************************************************************)
(* Text: a string is a sequence of characters.                             *)
(***************************************************************************)
Whitespace == {" ", "\n", "\t"}

RECURSIVE lstrip(_)
lstrip(s) == IF s # <<>> /\ Head(s) \in Whitespace THEN lstrip(Tail(s)) ELSE s

RECURSIVE rstrip(_)
rstrip(s) ==
    IF s # <<>> /\ s[Len(s)] \in Whitespace THEN rstrip(SubSeq(s, 1, Len(s) - 1)) ELSE s

strip(s) == rstrip(lstrip(s))

\* variant: `not content` alone, without the strip() test
IsBlankNoStrip(content) == content = <<>>

\* `not content or not content.strip()`
IsBlank(content) == content = <<>> \/ strip(content) = <<>>

(***************************************************************************)
(* Time zones and the posting window                                       *)
(***************************************************************************)
ValidTimeZones == {"UTC", "Asia/Tokyo"}

\* UTC offset of the zone, in hours
utcoffset(tz) == IF tz = "Asia/Tokyo" THEN 9 ELSE 0

\* now.astimezone(tz), kept as the local time of day
astimezone(now, tz) == (now + utcoffset(tz) * UnitsPerHour) % Day

\* now_local.replace(hour=t.hour, minute=t.minute, second=t.second, microsecond=0):
\* the date of now_local with the hour, minute and second of t; the microsecond
\* field of t is not copied
replace(t) == t - (t % UnitsPerHour)

\* variant: `start is None and end is None`
_in_window_both_absent(now_local, start, end) ==
    IF start = None /\ end = None THEN TRUE
    ELSE LET start_dt == replace(start)
             end_dt == replace(end)
         IN  IF start_dt <= end_dt THEN start_dt <= now_local /\ now_local <= end_dt
             ELSE now_local >= start_dt \/ now_local <= end_dt

_in_window(now_local, start, end) ==
    IF start = None \/ end = None THEN TRUE
    ELSE LET start_dt == replace(start)
             end_dt == replace(end)
         IN  IF start_dt <= end_dt THEN start_dt <= now_local /\ now_local <= end_dt
             ELSE now_local >= start_dt \/ now_local <= end_dt

(***************************************************************************)
(* History repository                                                      *)
(***************************************************************************)
Post(channel_id, content, status, scheduled_for, error, sent_at) ==
    [channel_id |-> channel_id, content |-> content, status |-> status,
     scheduled_for |-> scheduled_for, error |-> error, sent_at |-> sent_at]

SetMax(S) == CHOOSE x \in S : \A y \in S : y <= x

\* variant: the query without its status filter
last_sent_post_time_any_status(posts, channel_id) ==
    LET rows == {p \in posts : p.channel_id = channel_id}
    IN  IF rows = {} THEN None
        ELSE SetMax({IF p.sent_at # None THEN p.sent_at ELSE p.scheduled_for : p \in rows})

\* select sent_at where channel_id = .. and status = sent order by sent_at desc limit 1
last_sent_post_time(posts, channel_id) ==
    LET rows == {p \in posts : p.channel_id = channel_id /\ p.status = "sent"}
    IN  IF rows = {} THEN None ELSE SetMax({p.sent_at : p \in rows})

\* the keyword parameters record_post declares
RecordPostParams == {"channel_id", "content", "status", "scheduled_for", "error", "sent_at"}

\* keywords passed by the two call sites in create_and_send_post
SentCallKeywords == {"channel_id", "content", "image_url", "status", "scheduled_for", "sent_at"}
FailedCallKeywords == {"channel_id", "content", "image_url", "status", "scheduled_for", "error"}

\* a call binds its keywords before the body runs; an unknown keyword is a TypeError
record_post_accepts(keywords) == keywords \subseteq RecordPostParams

(***************************************************************************)
(* Posting policy                                                          *)
(***************************************************************************)
Max(a, b) == IF a >= b THEN a ELSE b

\* n/d rounded to the nearest unit, ties to even: what timedelta(hours=x)
\* does with a fractional number of its resolution units
RoundHalfEven(n, d) ==
    LET q == n \div d
        r == n % d
    IN  IF 2 * r > d \/ (2 * r = d /\ q % 2 = 1) THEN q + 1 ELSE q

\* timedelta(hours=24 / max(channel.posting_frequency_per_day, 1))
min_interval(channel) == RoundHalfEven(Day, Max(channel.posting_frequency_per_day, 1))

\* ZoneInfo(channel.timezone) raises for an unknown key
should_post_raises(channel) == channel.timezone \notin ValidTimeZones

\* variant: `>` in place of `>=` on the last line
should_post_strict(channel, now, posts) ==
    LET now_local == astimezone(now, channel.timezone)
        last_sent == last_sent_post_time(posts, channel.id)
    IN  IF ~_in_window(now_local, channel.posting_window_start, channel.posting_window_end)
        THEN FALSE
        ELSE IF last_sent = None THEN TRUE
        ELSE now - last_sent > min_interval(channel)

should_post(channel, now, posts) ==
    LET now_local == astimezone(now, channel.timezone)
        last_sent == last_sent_post_time(posts, channel.id)
    IN  IF ~_in_window(now_local, channel.posting_window_start, channel.posting_window_end)
        THEN FALSE
        ELSE IF last_sent = None THEN TRUE
        ELSE now - last_sent >= min_interval(channel)

(***************************************************************************)
(* Inputs                                                                  *)
(***************************************************************************)
BaseChannel ==
    [id |-> 0, telegram_channel_id |-> 0, auto_post_enabled |-> TRUE,
     posting_frequency_per_day |-> 1, posting_window_start |-> None,
     posting_window_end |-> None, timezone |-> "UTC", generate_images |-> FALSE,
     content_strategy |-> NoneStr]

\* channel configurations of the scheduler model
TickChannelConfigs ==
    { BaseChannel,
      [BaseChannel EXCEPT !.auto_post_enabled = FALSE],
      [BaseChannel EXCEPT !.posting_frequency_per_day = HoursPerDay, !.generate_images = TRUE],
      [BaseChannel EXCEPT !.posting_window_start = 2 * UnitsPerHour,
                          !.posting_window_end = 1 * UnitsPerHour],
      [BaseChannel EXCEPT !.timezone = "Mars/Olympus"],
      [BaseChannel EXCEPT !.content_strategy = "news"],
      [BaseChannel EXCEPT !.content_strategy = "openai", !.generate_images = TRUE],
      [BaseChannel EXCEPT !.content_strategy = "digest"] }

WithId(cfg, i) == [cfg EXCEPT !.id = i, !.telegram_channel_id = 1000 + i]

\* what a generator may return (the protocol promises a str)
Contents == { <<>>, <<" ">>, <<" ", "a">> }

\* the text PlaceholderGenerator.generate builds: never blank
PlaceholderText == <<"[", "t", "]">>

\* exceptions of the publisher: str(exc) may be empty
SendErrors == { [type |-> "TelegramAPIError", msg |-> "chat not found"],
                [type |-> "TimeoutError", msg |-> ""] }

GeneratorError == [type |-> "RuntimeError", msg |-> "synthesis failed"]
TypeError == [type |-> "TypeError", msg |-> "unexpected keyword argument 'image_url'"]
GenerateTypeError == [type |-> "TypeError", msg |-> "unexpected keyword argument 'recent_links'"]
ZoneInfoNotFoundError == [type |-> "ZoneInfoNotFoundError", msg |-> "No time zone found"]
NoExc == [type |-> "", msg |-> ""]

\* attributes of the GeneratedImage dataclass
GeneratedImageAttrs == {"url", "image_bytes"}

\* what generate_image may return: url and/or bytes (neither is raised inside it)
GeneratedImages ==
    { [url |-> "https://img/1", image_bytes |-> NoneStr],
      [url |-> NoneStr, image_bytes |-> "png"],
      [url |-> "https://img/1", image_bytes |-> "png"] }

\* rows the posts table may hold when the process starts (the table outlives
\* the process; a sent row always carries sent_at, a failed row its error)
SeedSent == {Post(i, <<"o">>, "sent", 0, NoneStr, 0) : i \in 1..NumChannels}
SeedFailed == {Post(i, <<"o">>, "failed", 0, "boom", None) : i \in 1..NumChannels}
TickHistories == { {}, SeedSent, SeedFailed }

NoRun ==
    [state |-> "none", ch |-> 0, generator |-> "none", generated |-> FALSE, content |-> <<>>,
     image_outcome |-> "none", image_url |-> NoneStr, image_payload |-> NoneStr,
     send_call |-> "none",
     generates |-> 0, images |-> 0, sends |-> 0, writes |-> 0, written |-> {},
     send_ok |-> FALSE, send_exc |-> NoExc, exc |-> NoExc]

\* no collect-and-select call of the news generator is under way
NoNews == [stage |-> "none"]

NoDecision ==
    [called |-> FALSE, call |-> "none", channel |-> BaseChannel, now |-> 0, result |-> "none"]

\* should_post(c, now) was called and gave res
ShouldPostCall(c, now, res) ==
    [called |-> TRUE, call |-> "should_post", channel |-> c, now |-> now, result |-> res]

(***************************************************************************)
(* Scheduler: the interval job and run_tick                                *)
(***************************************************************************)
Running(s) == pc[s] \notin {"idle", "done", "aborted"}

RunningSlots == {s \in Slots : Running(s)}

FreeSlot == CHOOSE s \in Slots \ RunningSlots : \A t \in Slots \ RunningSlots : s <= t

Visible(s) == history \cup pending[s]

Init ==
    /\ channels \in {cs \in [1..NumChannels -> TickChannelConfigs] : TRUE}
    /\ image_generator \in BOOLEAN
    /\ news = NoNews
    /\ history \in TickHistories
    /\ clock = 0
    /\ pc = [s \in Slots |-> "idle"]
    /\ tnow = [s \in Slots |-> 0]
    /\ idx = [s \in Slots |-> 0]
    /\ pending = [s \in Slots |-> {}]
    /\ run = [s \in Slots |-> NoRun]
    /\ evaluated = [s \in Slots |-> {}]
    /\ ran = [s \in Slots |-> <<>>]
    /\ decision = NoDecision
    /\ delivered = {}

Chan(i) == WithId(channels[i], i)

\* the timer fires and the executor starts run_tick: now is read, the session
\* is opened and the channels are listed
TimerFire ==
    /\ clock < MaxTime
    /\ Cardinality(RunningSlots) < MaxInstances
    /\ Slots \ RunningSlots # {}
    /\ LET s == FreeSlot
       IN  /\ clock' = clock + 1
           /\ pc' = [pc EXCEPT ![s] = "loop"]
           /\ tnow' = [tnow EXCEPT ![s] = clock + 1]
           /\ idx' = [idx EXCEPT ![s] = 1]
           /\ pending' = [pending EXCEPT ![s] = {}]
           /\ run' = [run EXCEPT ![s] = NoRun]
           /\ evaluated' = [evaluated EXCEPT ![s] = {}]
           /\ ran' = [ran EXCEPT ![s] = <<>>]
    /\ UNCHANGED <<channels, image_generator, news, history, decision, delivered>>

\* the timer fires while the job already runs its maximum of instances: the
\* run is skipped
TimerSkip ==
    /\ clock < MaxTime
    /\ Cardinality(RunningSlots) >= MaxInstances
    /\ clock' = clock + 1
    /\ UNCHANGED <<channels, image_generator, news, history, pc, tnow, idx, pending, run,
                   evaluated, ran, decision, delivered>>

\* an exception leaves run_tick: the session closes without commit
Abort(s, r) ==
    /\ pc' = [pc EXCEPT ![s] = "aborted"]
    /\ pending' = [pending EXCEPT ![s] = {}]
    /\ run' = [run EXCEPT ![s] = r]

\* `if not channel.auto_post_enabled: continue`
LoopSkip(s) ==
    /\ pc[s] = "loop"
    /\ idx[s] <= NumChannels
    /\ ~Chan(idx[s]).auto_post_enabled
    /\ idx' = [idx EXCEPT ![s] = idx[s] + 1]
    /\ UNCHANGED <<channels, image_generator, news, history, clock, pc, tnow, pending, run,
                   evaluated, ran, decision, delivered>>

\* variant: should_post leaves a queued row behind for the channel it checked
should_post_writes_queued(channel, now) ==
    {Post(channel.id, <<>>, "queued", now, NoneStr, None)}

\* the rows should_post adds to the session: it only runs the SELECT of
\* last_sent_post_time
should_post_writes(channel, now) == {}

\* `if await posting_service.should_post(channel, now):`
Evaluate(s) ==
    /\ pc[s] = "loop"
    /\ idx[s] <= NumChannels
    /\ Chan(idx[s]).auto_post_enabled
    /\ evaluated' = [evaluated EXCEPT ![s] = evaluated[s] \cup {idx[s]}]
    /\ LET c == Chan(idx[s])
       IN  IF should_post_raises(c)
           THEN /\ decision' = ShouldPostCall(c, tnow[s], "raise")
                /\ Abort(s, [run[s] EXCEPT !.exc = ZoneInfoNotFoundError])
                /\ UNCHANGED <<idx, ran>>
           ELSE IF should_post(c, tnow[s], Visible(s))
           THEN /\ decision' = ShouldPostCall(c, tnow[s], "true")
                /\ pc' = [pc EXCEPT ![s] = "generate"]
                /\ run' = [run EXCEPT ![s] = [NoRun EXCEPT !.state = "active", !.ch = idx[s]]]
                /\ ran' = [ran EXCEPT ![s] = Append(ran[s], idx[s])]
                /\ pending' = [pending EXCEPT ![s] = @ \cup should_post_writes(c, tnow[s])]
                /\ UNCHANGED idx
           ELSE /\ decision' = ShouldPostCall(c, tnow[s], "false")
                /\ idx' = [idx EXCEPT ![s] = idx[s] + 1]
                /\ pending' = [pending EXCEPT ![s] = @ \cup should_post_writes(c, tnow[s])]
                /\ UNCHANGED <<pc, run, ran>>
    /\ UNCHANGED <<channels, image_generator, news, history, clock, tnow, delivered>>

\* `await session.commit()` after the loop
Commit(s) ==
    /\ pc[s] = "loop"
    /\ idx[s] > NumChannels
    /\ history' = history \cup pending[s]
    /\ pending' = [pending EXCEPT ![s] = {}]
    /\ pc' = [pc EXCEPT ![s] = "done"]
    /\ UNCHANGED <<channels, image_generator, news, clock, tnow, idx, run, evaluated, ran,
                   decision, delivered>>

(***************************************************************************)
(* Orchestrator: create_and_send_post, one action per await                *)
(***************************************************************************)
\* the call returned: back to the for loop of run_tick
Return(s, r) ==
    /\ run' = [run EXCEPT ![s] = [r EXCEPT !.state = "returned"]]
    /\ idx' = [idx EXCEPT ![s] = idx[s] + 1]
    /\ pc' = [pc EXCEPT ![s] = "loop"]

\* the call raised: nothing in run_tick catches it
Raise(s, r, e) == Abort(s, [r EXCEPT !.state = "raised", !.exc = e])

\* build_content_registry: the names registered, in registration order;
\* "openai" and "news" only with an OpenAI key, which is also what lets
\* ImageGenerationService() be constructed
registry == IF image_generator THEN <<"placeholder", "openai", "news">> ELSE <<"placeholder">>

Registered == {registry[k] : k \in 1..Len(registry)}

\* variant: default() hands out the generator registered last
registry_default_last == registry[Len(registry)]

\* ContentRegistry.default: the first registered generator
registry_default == registry[1]

\* `channel.content_strategy or "placeholder"`
strategy_name(channel) ==
    IF channel.content_strategy \in {NoneStr, ""} THEN "placeholder"
    ELSE channel.content_strategy

\* lines 53-58: registry.get(name), on KeyError registry.default()
resolve_generator(channel) ==
    IF strategy_name(channel) \in Registered THEN strategy_name(channel)
    ELSE registry_default

\* keyword parameters each generator's generate() declares
GenerateParams(g) ==
    IF g = "openai" THEN {"channel", "now"} ELSE {"channel", "now", "recent_links"}

\* generator.generate(channel, now, recent_links=recent_links)
GenerateCallKeywords == {"channel", "now", "recent_links"}

\* the results of generate() per generator: the texts it may return and the
\* exceptions it may raise
GenerateReturns(g) ==
    IF ~(GenerateCallKeywords \subseteq GenerateParams(g)) THEN {}
    ELSE IF g = "placeholder" THEN {PlaceholderText}
    ELSE Contents

GenerateRaises(g) ==
    IF ~(GenerateCallKeywords \subseteq GenerateParams(g)) THEN {GenerateTypeError}
    ELSE IF g = "placeholder" THEN {}
    ELSE {GeneratorError}

\* variant: generate() is wrapped in try/except and a failure is logged and
\* taken as nothing to post
generate_guarded_swallowing == TRUE

\* whether an except clause encloses the generate() call: line 63 is awaited
\* before the try block of lines 86-113
generate_guarded == FALSE

\* lines 53-66: resolve the generator, call generate(), then the blank check
Generate(s) ==
    /\ pc[s] = "generate"
    /\ LET c == Chan(run[s].ch)
           g == resolve_generator(c)
           r0 == [run[s] EXCEPT !.generates = @ + 1, !.generator = g]
       IN  \/ \E e \in GenerateRaises(g) :
                IF generate_guarded
                THEN /\ Return(s, r0)
                     /\ UNCHANGED pending
                ELSE /\ Raise(s, r0, e)
                     /\ UNCHANGED idx
           \/ \E content \in GenerateReturns(g) :
                LET r == [r0 EXCEPT !.generated = TRUE, !.content = content]
                IN  IF IsBlank(content)
                    THEN /\ Return(s, r)
                         /\ UNCHANGED pending
                    ELSE /\ run' = [run EXCEPT ![s] = r]
                         /\ pc' = [pc EXCEPT ![s] =
                                IF c.generate_images /\ image_generator THEN "image" ELSE "send"]
                         /\ UNCHANGED <<idx, pending>>
    /\ UNCHANGED <<channels, image_generator, news, history, clock, tnow, evaluated, ran,
                   decision, delivered>>

NoImage == [image_url |-> NoneStr, image_payload |-> NoneStr]

\* lines 77-81 on the object generate_image returned; reading an attribute the
\* dataclass does not have raises AttributeError, which the handler swallows
image_result(g) ==
    IF g.url # NoneStr THEN [image_url |-> g.url, image_payload |-> g.url]
    ELSE IF "data_url" \notin GeneratedImageAttrs THEN NoImage
    ELSE [image_url |-> "data:image/png;base64",
          image_payload |-> IF g.image_bytes # NoneStr THEN g.image_bytes ELSE NoneStr]

\* what generate_image handed back
image_kind(g) ==
    IF g.url # NoneStr /\ g.image_bytes # NoneStr THEN "url+bytes"
    ELSE IF g.url # NoneStr THEN "url" ELSE "bytes"

\* image_generator.generate_image(content) inside try/except Exception
Image(s) ==
    /\ pc[s] = "image"
    /\ \/ run' = [run EXCEPT ![s] = [run[s] EXCEPT !.images = @ + 1,
                                                  !.image_outcome = "raised",
                                                  !.image_url = NoneStr]]
       \/ \E g \in GeneratedImages :
             run' = [run EXCEPT ![s] = [run[s] EXCEPT !.images = @ + 1,
                                                     !.image_outcome = image_kind(g),
                                                     !.image_url = image_result(g).image_url,
                                                     !.image_payload = image_result(g).image_payload]]
    /\ pc' = [pc EXCEPT ![s] = "send"]
    /\ UNCHANGED <<channels, image_generator, news, history, clock, tnow, idx, pending,
                   evaluated, ran, decision, delivered>>

\* variant: a failed send_photo is followed by another delivery attempt
after_send_failure_retry(r) ==
    IF r.send_call = "send_photo" /\ r.sends < 2 THEN "send" ELSE "record_failed"

\* where a delivery exception leads: the except branch of lines 103-113
after_send_failure(r) == "record_failed"

\* send_photo when there is an image payload, send_message otherwise
Send(s) ==
    /\ pc[s] = "send"
    /\ LET c == Chan(run[s].ch)
           kind == IF run[s].image_payload # NoneStr THEN "send_photo" ELSE "send_message"
           r == [run[s] EXCEPT !.sends = @ + 1, !.send_call = kind]
       IN  \/ /\ run' = [run EXCEPT ![s] = [r EXCEPT !.send_ok = TRUE]]
              /\ delivered' = delivered \cup
                    {[channel |-> c.id, dest |-> c.telegram_channel_id, call |-> kind,
                      content |-> r.content, at |-> tnow[s]]}
              /\ pc' = [pc EXCEPT ![s] = "record_sent"]
           \/ \E e \in SendErrors :
              /\ run' = [run EXCEPT ![s] = [r EXCEPT !.send_exc = e, !.exc = e]]
              /\ pc' = [pc EXCEPT ![s] = after_send_failure(r)]
              /\ UNCHANGED delivered
    /\ UNCHANGED <<channels, image_generator, news, history, clock, tnow, idx, pending,
                   evaluated, ran, decision>>

\* record_post(..., status=sent, sent_at=now) inside the try block
RecordSent(s) ==
    /\ pc[s] = "record_sent"
    /\ LET r == run[s]
           post == Post(r.ch, r.content, "sent", tnow[s], NoneStr, tnow[s])
       IN  IF record_post_accepts(SentCallKeywords)
           THEN /\ pending' = [pending EXCEPT ![s] = pending[s] \cup {post}]
                /\ Return(s, [r EXCEPT !.writes = @ + 1, !.written = @ \cup {post}])
           ELSE /\ run' = [run EXCEPT ![s] = [r EXCEPT !.exc = TypeError]]
                /\ pc' = [pc EXCEPT ![s] = "record_failed"]
                /\ UNCHANGED <<idx, pending>>
    /\ UNCHANGED <<channels, image_generator, news, history, clock, tnow, evaluated, ran,
                   decision, delivered>>

\* the except branch: record_post(..., status=failed, error=str(exc)), then raise
RecordFailed(s) ==
    /\ pc[s] = "record_failed"
    /\ LET r == run[s]
           post == Post(r.ch, r.content, "failed", tnow[s], r.exc.msg, None)
       IN  IF record_post_accepts(FailedCallKeywords)
           THEN Raise(s, [r EXCEPT !.writes = @ + 1, !.written = @ \cup {post}], r.exc)
           ELSE Raise(s, r, TypeError)
    /\ UNCHANGED <<channels, image_generator, news, history, clock, tnow, idx, evaluated, ran,
                   decision, delivered>>

Next ==
    \/ TimerFire
    \/ TimerSkip
    \/ \E s \in Slots :
          \/ LoopSkip(s)
          \/ Evaluate(s)
          \/ Generate(s)
          \/ Image(s)
          \/ Send(s)
          \/ RecordSent(s)
          \/ RecordFailed(s)
          \/ Commit(s)

Spec == Init /\ [][Next]_vars

(***************************************************************************)
(* Links and post text. A text is a sequence of characters.                *)
(***************************************************************************)
UpperCase == <<"A", "B", "C", "D", "E", "F", "G", "H", "I", "J", "K", "L", "M", "N", "O", "P", "Q", "R", "S", "T", "U", "V", "W", "X", "Y", "Z">>

LowerCase == <<"a", "b", "c", "d", "e", "f", "g", "h", "i", "j", "k", "l", "m", "n", "o", "p", "q", "r", "s", "t", "u", "v", "w", "x", "y", "z">>

Digits == {"0", "1", "2", "3", "4", "5", "6", "7", "8", "9"}

Range(f) == {f[k] : k \in DOMAIN f}

\* str.lower() on one character
lower_char(ch) ==
    IF ch \in Range(UpperCase)
    THEN LowerCase[CHOOSE k \in 1..Len(UpperCase) : UpperCase[k] = ch]
    ELSE ch

lower(str) == [k \in 1..Len(str) |-> lower_char(str[k])]

\* str.rstrip(chars)
RECURSIVE rstrip_chars(_, _)
rstrip_chars(str, chars) ==
    IF str # <<>> /\ str[Len(str)] \in chars
    THEN rstrip_chars(SubSeq(str, 1, Len(str) - 1), chars)
    ELSE str

\* position of the first character of str at or after from that is in chars,
\* 0 when there is none
find(str, chars, from) ==
    LET hits == {k \in from..Len(str) : str[k] \in chars}
    IN  IF hits = {} THEN 0 ELSE CHOOSE k \in hits : \A j \in hits : k <= j

\* str[k:].startswith(prefix), k counted from 1
startswith(str, k, prefix) ==
    /\ k + Len(prefix) - 1 <= Len(str)
    /\ \A j \in 1..Len(prefix) : str[k + j - 1] = prefix[j]

\* characters a URL scheme may consist of (urllib.parse.scheme_chars)
SchemeChars == Range(UpperCase) \cup Range(LowerCase) \cup Digits \cup {"+", "-", "."}

\* urlparse, the path: its last segment gives up its `;params`
split_params(scheme, netloc, rest, query, fragment) ==
    LET slashes == {k \in 1..Len(rest) : rest[k] = "/"}
        last_slash == IF slashes = {} THEN 0 ELSE CHOOSE k \in slashes : \A j \in slashes : j <= k
        semi == find(rest, {";"}, last_slash + 1)
    IN  [scheme |-> scheme, netloc |-> netloc,
         path |-> IF semi = 0 THEN rest ELSE SubSeq(rest, 1, semi - 1),
         params |-> IF semi = 0 THEN <<>> ELSE SubSeq(rest, semi + 1, Len(rest)),
         query |-> query, fragment |-> fragment]

\* urlparse, the query: what follows the first "?"
split_query(scheme, netloc, rest, fragment) ==
    LET q == find(rest, {"?"}, 1)
    IN  split_params(scheme, netloc,
                     IF q = 0 THEN rest ELSE SubSeq(rest, 1, q - 1),
                     IF q = 0 THEN <<>> ELSE SubSeq(rest, q + 1, Len(rest)),
                     fragment)

\* urlparse, the fragment: what follows the first "#"
split_fragment(scheme, netloc, rest) ==
    LET f == find(rest, {"#"}, 1)
    IN  split_query(scheme, netloc,
                    IF f = 0 THEN rest ELSE SubSeq(rest, 1, f - 1),
                    IF f = 0 THEN <<>> ELSE SubSeq(rest, f + 1, Len(rest)))

\* urlparse, the netloc: after a leading "//", up to the first of "/", "?", "#"
split_netloc(scheme, rest) ==
    LET has_netloc == startswith(rest, 1, <<"/", "/">>)
        d == find(rest, {"/", "?", "#"}, 3)
        netloc_end == IF d = 0 THEN Len(rest) ELSE d - 1
    IN  split_fragment(scheme,
                       IF has_netloc THEN SubSeq(rest, 3, netloc_end) ELSE <<>>,
                       IF has_netloc THEN SubSeq(rest, netloc_end + 1, Len(rest)) ELSE rest)

\* urllib.parse.urlparse: scheme (lower-cased), netloc, path, params, query
\* and fragment of a link
urlparse(url) ==
    LET i == find(url, {":"}, 1)
        has_scheme == /\ i > 1
                      /\ url[1] \in Range(UpperCase) \cup Range(LowerCase)
                      /\ \A k \in 1..(i - 1) : url[k] \in SchemeChars
    IN  split_netloc(IF has_scheme THEN lower(SubSeq(url, 1, i - 1)) ELSE <<>>,
                     IF has_scheme THEN SubSeq(url, i + 1, Len(url)) ELSE url)

\* _normalize_link once the link is parsed
normalize_parsed(link, parsed) ==
    IF parsed.netloc = <<>> THEN link
    ELSE (IF parsed.scheme = <<>> THEN <<"h", "t", "t", "p">> ELSE parsed.scheme)
         \o <<":", "/", "/">> \o lower(parsed.netloc) \o rstrip_chars(parsed.path, {"/"})

\* NewsDigestGenerator._normalize_link
_normalize_link(link) == normalize_parsed(link, urlparse(link))

\* the end of a match whose \S+ part starts at body: at the next blank
match_end(text, body, stop) ==
    IF body = 0 \/ body > Len(text) \/ stop = body THEN 0
    ELSE IF stop = 0 THEN Len(text) ELSE stop - 1

match_body(text, body) == match_end(text, body, IF body = 0 THEN 0 ELSE find(text, Whitespace, body))

\* re `https?://\S+` tried at position k: the position of the last character
\* of the match, 0 when there is no match at k
match_url_at(text, k) ==
    match_body(text,
               IF startswith(text, k, <<"h", "t", "t", "p", "s", ":", "/", "/">>) THEN k + 8
               ELSE IF startswith(text, k, <<"h", "t", "t", "p", ":", "/", "/">>) THEN k + 7
               ELSE 0)

\* url_regex.findall(text) from position k on, each match rstrip(").,")-ed
RECURSIVE findall_links(_, _)
findall_from(text, k, e) ==
    IF e = 0 THEN findall_links(text, k + 1)
    ELSE {rstrip_chars(SubSeq(text, k, e), {")", ".", ","})} \cup findall_links(text, e + 1)

findall_links(text, k) ==
    IF k > Len(text) THEN {} ELSE findall_from(text, k, match_url_at(text, k))

\* PostingService._extract_links_from_posts
_extract_links_from_posts(posts) == UNION {findall_links(p.content, 1) : p \in posts}

\* limit of the last_posts query in create_and_send_post
RecentLimit == 50

\* PostRepository.last_posts: the channel's rows, newest created_at first, cut at limit
last_posts(posts, channel_id, limit) ==
    LET rows == {p \in posts : p.channel_id = channel_id}
    IN  {p \in rows : Cardinality({q \in rows : q.created_at > p.created_at}) < limit}

(***************************************************************************)
(* News digest generator                                                   *)
(***************************************************************************)
selection_pool_size == 5

MinSummaryLen == 20

NewsCandidate(link, summary, published_at) ==
    [link |-> link, summary |-> summary, published_at |-> published_at]

\* " ".join(text.split())
RECURSIVE collapse(_, _)
collapse(str, k) ==
    IF k > Len(str) THEN <<>>
    ELSE IF str[k] \in Whitespace
         THEN (IF str[k - 1] \in Whitespace THEN <<>> ELSE <<" ">>) \o collapse(str, k + 1)
         ELSE <<str[k]>> \o collapse(str, k + 1)

_squash_spaces(text) == collapse(strip(text), 1)

\* str `in`: sub occurs somewhere in str
contains(str, sub) == \E k \in 1..(Len(str) + 1) : startswith(str, k, sub)

section_markers ==
    { <<"/", "s", "e", "c", "t", "i", "o", "n">>,
      <<"/", "s", "e", "c", "t", "i", "o", "n", "s">>,
      <<"/", "c", "a", "t", "e", "g", "o", "r", "y">>,
      <<"/", "c", "a", "t", "e", "g", "o", "r", "i", "e", "s">>,
      <<"/", "s", "p", "e", "c", "i", "a", "l", "s">>,
      <<"/", "t", "o", "p", "i", "c", "s">>,
      <<"/", "t", "a", "g", "s">>,
      <<"/", "c", "o", "l", "l", "e", "c", "t", "i", "o", "n", "s">> }

section_link_parsed(parsed) ==
    \/ \E marker \in section_markers : contains(lower(parsed.path), marker)
    \/ parsed.query # <<>> /\ contains(lower(parsed.query), <<"s", "e", "c", "t", "i", "o", "n">>)

_looks_like_section_link(link) == section_link_parsed(urlparse(link))

_is_probably_article(candidate) ==
    /\ Len(_squash_spaces(candidate.summary)) >= MinSummaryLen
    /\ ~_looks_like_section_link(candidate.link)

\* variant: the stable sort without reverse=True, oldest first
sorted_oldest_first(candidates) ==
    LET n == Len(candidates)
        rank(k) == Cardinality({j \in 1..n : candidates[j].published_at < candidates[k].published_at})
                   + Cardinality({j \in 1..(k - 1) : candidates[j].published_at = candidates[k].published_at})
                   + 1
    IN  [r \in 1..n |-> candidates[CHOOSE k \in 1..n : rank(k) = r]]

\* sorted(candidates, key=published_at, reverse=True): a stable sort
sorted_by_published(candidates) ==
    LET n == Len(candidates)
        rank(k) == Cardinality({j \in 1..n : candidates[j].published_at > candidates[k].published_at})
                   + Cardinality({j \in 1..(k - 1) : candidates[j].published_at = candidates[k].published_at})
                   + 1
    IN  [r \in 1..n |-> candidates[CHOOSE k \in 1..n : rank(k) = r]]

\* random.Random(seed).choice(range(n)) of CPython for seed 0..31 (rows) and
\* n 1..5 (columns)
RandBelow ==
    << <<0, 1, 1, 3, 3>>, <<0, 0, 0, 1, 1>>, <<0, 0, 0, 0, 0>>, <<0, 0, 0, 1, 1>>,
       <<0, 0, 0, 1, 1>>, <<0, 1, 2, 2, 4>>, <<0, 0, 2, 0, 4>>, <<0, 1, 1, 2, 2>>,
       <<0, 0, 0, 1, 1>>, <<0, 1, 1, 3, 3>>, <<0, 0, 2, 0, 4>>, <<0, 1, 1, 3, 3>>,
       <<0, 1, 1, 3, 3>>, <<0, 1, 1, 2, 2>>, <<0, 0, 0, 0, 0>>, <<0, 0, 0, 1, 1>>,
       <<0, 1, 1, 2, 2>>, <<0, 1, 2, 3, 4>>, <<0, 0, 0, 1, 1>>, <<0, 0, 2, 0, 0>>,
       <<0, 0, 2, 1, 1>>, <<0, 0, 0, 1, 1>>, <<0, 0, 0, 1, 1>>, <<0, 1, 1, 2, 2>>,
       <<0, 1, 2, 3, 3>>, <<0, 1, 1, 3, 3>>, <<0, 0, 2, 1, 1>>, <<0, 1, 2, 3, 3>>,
       <<0, 0, 0, 0, 0>>, <<0, 0, 2, 0, 4>>, <<0, 1, 2, 2, 4>>, <<0, 0, 0, 0, 0>> >>

\* int(now_utc.timestamp()): the whole seconds of now
timestamp_seed(now) == now \div UnitsPerHour

\* variant: the choice comes from a generator shared between the calls, whose
\* state advances with every call
choice_shared_rng(pool, now) ==
    pool[((RandBelow[timestamp_seed(now) + 1][Len(pool)] + news.calls) % Len(pool)) + 1]

\* rng.choice(pool) with rng = random.Random(int(now_utc.timestamp()))
choice(pool, now) == pool[RandBelow[timestamp_seed(now) + 1][Len(pool)] + 1]

\* variant: the article-like members are not preferred
prefer_nothing(top, preferred, now) == choice(top, now)

\* `if preferred: pool = preferred`
prefer(top, preferred, now) == choice(IF preferred # <<>> THEN preferred ELSE top, now)

pick_from_top(top, now) == prefer(top, SelectSeq(top, _is_probably_article), now)

pick_from_sorted(sorted_candidates, now) ==
    pick_from_top(SubSeq(sorted_candidates, 1,
                         IF Len(sorted_candidates) < selection_pool_size
                         THEN Len(sorted_candidates) ELSE selection_pool_size),
                  now)

\* NewsDigestGenerator._pick_best_candidate
_pick_best_candidate(candidates, now) == pick_from_sorted(sorted_by_published(candidates), now)

\* `seen_links = {normalize(link) for link in (recent_links or set()) if link}`
seen_links_of(recent_links) == {_normalize_link(link) : link \in {l \in recent_links : l # <<>>}}

not_seen(candidates, seen_links) ==
    LET keep(c) == _normalize_link(c.link) \notin seen_links
    IN  SelectSeq(candidates, keep)

\* variant: without the `elif seen_links: return ""` branch
dedup_keeping_seen(candidates, seen_links, filtered) ==
    IF filtered # <<>> THEN filtered ELSE candidates

\* generate, lines 63-66: the candidates left to pick from; none when every
\* candidate is in a non-empty seen set
dedup(candidates, seen_links, filtered) ==
    IF filtered # <<>> THEN filtered
    ELSE IF seen_links # {} THEN <<>>
    ELSE candidates

\* the translation link of a digest (a telegra.ph page or a Google Translate URL)
TranslationLink == <<"h", "t", "t", "p", "s", ":", "/", "/", "g", "/", "t", "?", "u">>

\* the digest _summarize_candidate returns: headline and summary, then the
\* translation link and the candidate's link, each after a blank
Digest(candidate) ==
    <<"x", "\n", "T", ":", " ">> \o TranslationLink \o <<"\n", "O", ":", " ">> \o candidate.link

NoCandidate == NewsCandidate(<<>>, <<>>, None)

digest_of(best) == [kind |-> "digest", chosen |-> best, content |-> Digest(best)]

generate_from(left, now) ==
    IF left = <<>> THEN [kind |-> "empty", chosen |-> NoCandidate, content |-> <<>>]
    ELSE digest_of(_pick_best_candidate(left, now))

generate_seen(candidates, now, seen_links) ==
    generate_from(dedup(candidates, seen_links, not_seen(candidates, seen_links)), now)

\* NewsDigestGenerator.generate from the collected candidates on (lines 57-69)
news_generate(candidates, now, recent_links) ==
    IF candidates = <<>> THEN [kind |-> "empty", chosen |-> NoCandidate, content |-> <<>>]
    ELSE generate_seen(candidates, now, seen_links_of(recent_links))

(***************************************************************************)
(* The posting policy on its own: should_post applied to a channel         *)
(* configuration, a posts table and a time drawn from bounded sets.        *)
(***************************************************************************)
MaxPolicyTime == Day + 2 * UnitsPerHour

\* windows: absent bounds, whole-second bounds and bounds with a microsecond part
PolicyWindows ==
    { <<None, None>>, <<None, 2 * UnitsPerHour>>,
      <<2 * UnitsPerHour, 5 * UnitsPerHour>>, <<22 * UnitsPerHour, 3 * UnitsPerHour>>,
      <<2 * UnitsPerHour + 1, 5 * UnitsPerHour>>, <<2 * UnitsPerHour, 5 * UnitsPerHour + 1>>,
      <<22 * UnitsPerHour + 1, 3 * UnitsPerHour>> }

PolicyTimeZones == {"UTC", "Asia/Tokyo", "Mars/Olympus"}

PolicyChannels ==
    { [BaseChannel EXCEPT !.posting_frequency_per_day = f,
                          !.posting_window_start = w[1],
                          !.posting_window_end = w[2],
                          !.timezone = tz] :
        f \in 1..MaxFreq, w \in PolicyWindows, tz \in PolicyTimeZones }

PolicyPosts ==
    { Post(1, <<"o">>, "sent", 0, NoneStr, 0),
      Post(1, <<"o">>, "sent", 2, NoneStr, 2),
      Post(1, <<"o">>, "failed", 4, "boom", None),
      Post(2, <<"o">>, "sent", 5, NoneStr, 5) }

PolicyInit ==
    /\ channels \in {[i \in 1..NumChannels |-> IF i = 1 THEN c ELSE BaseChannel] :
                        c \in PolicyChannels}
    /\ image_generator = FALSE
    /\ news = NoNews
    /\ history \in SUBSET PolicyPosts
    /\ clock \in 0..MaxPolicyTime
    /\ pc = [s \in Slots |-> "idle"]
    /\ tnow = [s \in Slots |-> 0]
    /\ idx = [s \in Slots |-> 0]
    /\ pending = [s \in Slots |-> {}]
    /\ run = [s \in Slots |-> NoRun]
    /\ evaluated = [s \in Slots |-> {}]
    /\ ran = [s \in Slots |-> <<>>]
    /\ decision = NoDecision
    /\ delivered = {}

\* a caller evaluates should_post(channel, now) against the committed history
PolicyEvaluate(i) ==
    /\ LET c == Chan(i)
       IN  decision' = ShouldPostCall(c, clock,
                                      IF should_post_raises(c) THEN "raise"
                                      ELSE IF should_post(c, clock, history) THEN "true"
                                      ELSE "false")
    /\ UNCHANGED <<channels, image_generator, news, history, clock, pc, tnow, idx, pending,
                   run, evaluated, ran, delivered>>

\* _in_window(now_local, start, end) called with the channel's window and
\* the channel-local time, as should_post and the tests call it
PolicyInWindow(i) ==
    /\ ~should_post_raises(Chan(i))
    /\ LET c == Chan(i)
           now_local == astimezone(clock, c.timezone)
       IN  decision' = [called |-> TRUE, call |-> "_in_window", channel |-> c, now |-> clock,
                        result |-> IF _in_window(now_local, c.posting_window_start,
                                                 c.posting_window_end)
                                   THEN "true" ELSE "false"]
    /\ UNCHANGED <<channels, image_generator, news, history, clock, pc, tnow, idx, pending,
                   run, evaluated, ran, delivered>>

PolicyNext == \E i \in 1..NumChannels : PolicyEvaluate(i) \/ PolicyInWindow(i)

PolicySpec == PolicyInit /\ [][PolicyNext]_vars

(***************************************************************************)
(* The news channel on its own: create_and_send_post, lines 60-63, with    *)
(* the NewsDigestGenerator, over a posts table and feed results drawn from *)
(* bounded sets.                                                           *)
(***************************************************************************)
LinkA == <<"h", "t", "t", "p", ":", "/", "/", "e", "/", "a">>
LinkASlash == <<"h", "t", "t", "p", ":", "/", "/", "e", "/", "a", "/">>
LinkAHost == <<"h", "t", "t", "p", ":", "/", "/", "E", "/", "a">>
LinkAQuery == <<"h", "t", "t", "p", ":", "/", "/", "e", "/", "a", "?", "q">>
LinkAParen == <<"h", "t", "t", "p", ":", "/", "/", "e", "/", "a", ")">>
LinkB == <<"h", "t", "t", "p", ":", "/", "/", "e", "/", "b">>

NewsLinks == {LinkA, LinkASlash, LinkAHost, LinkAQuery, LinkAParen, LinkB}

LongSummary == [k \in 1..MinSummaryLen |-> "s"]

\* what _collect_candidates may hand back: nothing, or entries of the feeds
FeedResults ==
    { <<>>,
      <<NewsCandidate(LinkA, LongSummary, 0)>>,
      <<NewsCandidate(LinkB, <<"s">>, 0)>>,
      <<NewsCandidate(LinkAParen, LongSummary, 0)>>,
      <<NewsCandidate(LinkA, LongSummary, 0), NewsCandidate(LinkB, LongSummary, 0)>>,
      <<NewsCandidate(LinkASlash, <<"s">>, 0), NewsCandidate(LinkAHost, LongSummary, 0)>>,
      <<NewsCandidate(LinkAQuery, LongSummary, 0), NewsCandidate(LinkB, <<"s">>, 1),
        NewsCandidate(LinkAParen, <<"s">>, 1)>> }

NewsPost(channel_id, content, status, created_at) ==
    [channel_id |-> channel_id, content |-> content, status |-> status,
     scheduled_for |-> created_at, error |-> IF status = "failed" THEN "boom" ELSE NoneStr,
     sent_at |-> IF status = "sent" THEN created_at ELSE None, created_at |-> created_at]

\* rows the posts table may hold: digests published earlier, a failed one, a
\* text without a link, and a row of another channel
NewsSeedPosts ==
    { NewsPost(1, Digest(NewsCandidate(LinkA, <<>>, 0)), "sent", 0),
      NewsPost(1, Digest(NewsCandidate(LinkAParen, <<>>, 0)), "sent", 1),
      NewsPost(1, Digest(NewsCandidate(LinkB, <<>>, 0)), "failed", 2),
      NewsPost(1, <<"o">>, "sent", 3),
      NewsPost(2, Digest(NewsCandidate(LinkA, <<>>, 0)), "sent", 4) }

NewsInit ==
    /\ channels = [i \in 1..NumChannels |->
                        IF i = 1 THEN [BaseChannel EXCEPT !.content_strategy = "news"]
                        ELSE BaseChannel]
    /\ image_generator = TRUE
    /\ news = NoNews
    /\ history \in SUBSET NewsSeedPosts
    /\ clock = 0
    /\ pc = [s \in Slots |-> "idle"]
    /\ tnow = [s \in Slots |-> 0]
    /\ idx = [s \in Slots |-> 0]
    /\ pending = [s \in Slots |-> {}]
    /\ run = [s \in Slots |-> NoRun]
    /\ evaluated = [s \in Slots |-> {}]
    /\ ran = [s \in Slots |-> <<>>]
    /\ decision = NoDecision
    /\ delivered = {}

\* the run from the generator's result on: the digest is delivered and
\* record_post is called
NewsDeliver(i, now, candidates, recent_posts, recent_links, res) ==
    /\ decision' = [called |-> TRUE, call |-> "generate", channel |-> Chan(i),
                    now |-> now, result |-> res.kind, candidates |-> candidates,
                    recent_posts |-> recent_posts, recent_links |-> recent_links,
                    chosen |-> res.chosen, content |-> res.content]
    /\ IF IsBlank(res.content)
       THEN UNCHANGED <<history, delivered>>
       ELSE /\ delivered' = delivered \cup
                   {[channel |-> i, dest |-> Chan(i).telegram_channel_id,
                     call |-> "send_message", content |-> res.content, at |-> now]}
            /\ history' = IF record_post_accepts(SentCallKeywords)
                          THEN history \cup {NewsPost(i, res.content, "sent", now)}
                          ELSE history

NewsGenerate(i, now, candidates, recent_posts, recent_links) ==
    NewsDeliver(i, now, candidates, recent_posts, recent_links,
                news_generate(candidates, now, recent_links))

NewsExtract(i, now, candidates, recent_posts) ==
    NewsGenerate(i, now, candidates, recent_posts, _extract_links_from_posts(recent_posts))

\* one create_and_send_post for news channel i at the next clock value: the
\* recent links are read from the history and generate() picks a candidate
NewsRun(i) ==
    /\ clock < MaxTime
    /\ resolve_generator(Chan(i)) = "news"
    /\ clock' = clock + 1
    /\ \E candidates \in FeedResults :
          NewsExtract(i, clock + 1, candidates, last_posts(history, i, RecentLimit))
    /\ UNCHANGED <<channels, image_generator, news, pc, tnow, idx, pending, run, evaluated, ran>>

NewsNext == \E i \in 1..NumChannels : NewsRun(i)

NewsSpec == NewsInit /\ [][NewsNext]_vars

(***************************************************************************)
(* Feed collection of the news generator: _collect_candidates fetches the  *)
(* source feeds concurrently, _fetch_feed turns the entries of one feed    *)
(* into candidates, and generate() selects one of them.                    *)
(***************************************************************************)
NumSources == 2

\* constructor defaults of NewsDigestGenerator
lookback_hours == 24

max_entries_per_source == 5

\* a feed entry as feedparser hands it over; a *_parsed field is a whole
\* number of seconds, None when the key is absent
FeedEntry(link, summary, published_parsed, updated_parsed, created_parsed) ==
    [link |-> link, summary |-> summary, published_parsed |-> published_parsed,
     updated_parsed |-> updated_parsed, created_parsed |-> created_parsed]

\* a time tuple that datetime(*value[:6]) rejects with an exception
BadTime == None - 1

\* datetime(*value[:6], tzinfo=timezone.utc): a whole-second instant
datetime_of(value) == value * UnitsPerHour

\* `if value:` and the constructor does not raise
usable(value) == value # None /\ value # BadTime

\* variant: an entry without usable timestamp is dated at the epoch
_extract_datetime_epoch(entry, fallback) ==
    IF usable(entry.published_parsed) THEN datetime_of(entry.published_parsed)
    ELSE IF usable(entry.updated_parsed) THEN datetime_of(entry.updated_parsed)
    ELSE IF usable(entry.created_parsed) THEN datetime_of(entry.created_parsed)
    ELSE 0

_extract_datetime(entry, fallback) ==
    IF usable(entry.published_parsed) THEN datetime_of(entry.published_parsed)
    ELSE IF usable(entry.updated_parsed) THEN datetime_of(entry.updated_parsed)
    ELSE IF usable(entry.created_parsed) THEN datetime_of(entry.created_parsed)
    ELSE fallback

\* cutoff = now_utc - timedelta(hours=self.lookback_hours)
cutoff_of(now_utc) == now_utc - lookback_hours * UnitsPerHour

\* variant: every entry of the feed is read
slice_all(entries, n) == entries

\* parsed.entries[: self.max_entries_per_source]
slice(entries, n) == SubSeq(entries, 1, IF Len(entries) < n THEN Len(entries) ELSE n)

\* variant: an entry published exactly at the cutoff is dropped too
older_or_equal(published_at, cutoff) == published_at <= cutoff

\* `if published_at < cutoff: continue`
older_than(published_at, cutoff) == published_at < cutoff

kept(entries, cutoff, now_utc) ==
    SelectSeq(entries, LAMBDA e : ~older_than(_extract_datetime(e, now_utc), cutoff))

candidates_of(entries, now_utc) ==
    [k \in 1..Len(entries) |->
        NewsCandidate(entries[k].link, entries[k].summary,
                      _extract_datetime(entries[k], now_utc))]

\* NewsDigestGenerator._fetch_feed on the entries of the parsed response
_fetch_feed(entries, cutoff, now_utc) ==
    candidates_of(kept(slice(entries, max_entries_per_source), cutoff, now_utc), now_utc)

\* what client.get(url) of one source does: raise, or return a feed
FetchErrors == {"ReadTimeout", "ConnectError"}

\* the outcome of one fetch task
fetch_task(response, now_utc) ==
    IF response.error # NoneStr
    THEN [status |-> "raised", error |-> response.error, candidates |-> <<>>]
    ELSE [status |-> "returned", error |-> NoneStr,
          candidates |-> _fetch_feed(response.entries, cutoff_of(now_utc), now_utc)]

\* variant: asyncio.gather re-raises the first exception of a task
return_exceptions_off == FALSE

\* asyncio.gather(*fetch_tasks, return_exceptions=True)
return_exceptions == TRUE

\* variant: the results in the order in which the tasks completed
gather_as_completed(results, order) == [k \in 1..Len(order) |-> results[order[k]]]

\* asyncio.gather returns the results in the order of the awaitables
gather(results, order) == results

\* `if isinstance(result, Exception): ...; continue`
RECURSIVE extend_all(_, _)
extend_all(results, k) ==
    IF k > Len(results) THEN <<>>
    ELSE (IF results[k].status = "raised" THEN <<>> ELSE results[k].candidates)
         \o extend_all(results, k + 1)

\* the generator's call once every source is being fetched
NewsCall(now, responses, recent_links) ==
    [stage |-> "fetching", now |-> now, responses |-> responses,
     recent_links |-> recent_links,
     results |-> [k \in 1..NumSources |->
                     [status |-> "pending", error |-> NoneStr, candidates |-> <<>>]],
     order |-> <<>>,
     candidates |-> <<>>, left |-> <<>>,
     result |-> [kind |-> "empty", chosen |-> NoCandidate, content |-> <<>>],
     calls |-> 0, again_now |-> None, again |-> NoCandidate]

(***************************************************************************)
(* The feed collection on its own: the responses of the sources, the time  *)
(* of the call and the recent links are drawn from bounded sets; the fetch *)
(* tasks complete in any order.                                            *)
(***************************************************************************)
LinkTags == <<"h", "t", "t", "p", ":", "/", "/", "e", "/", "t", "a", "g", "s">>

\* long enough before the whitespace runs are squashed, too short after
PaddedSummary == [k \in 1..MinSummaryLen |-> IF k = 1 THEN "s" ELSE " "]

\* three entries inside the lookback window
FeedThree ==
    << FeedEntry(LinkA, LongSummary, 10, None, None),
       FeedEntry(LinkB, LongSummary, 11, None, None),
       FeedEntry(LinkAQuery, LongSummary, 12, None, None) >>

\* entries older than the cutoff, around the cutoff, without timestamp, and
\* with a published time tuple the datetime constructor rejects
FeedMixed ==
    << FeedEntry(LinkAHost, LongSummary, 0, None, None),
       FeedEntry(LinkASlash, <<"s">>, 1, 20, None),
       FeedEntry(LinkB, LongSummary, None, None, None),
       FeedEntry(LinkAParen, LongSummary, BadTime, 0, None),
       FeedEntry(LinkA, LongSummary, BadTime, None, 2) >>

\* more entries than the per-source cap, none of them article-like
FeedSix ==
    << FeedEntry(LinkA, <<"s">>, 30, None, None),
       FeedEntry(LinkASlash, <<"s">>, 31, None, None),
       FeedEntry(LinkAHost, PaddedSummary, 32, None, None),
       FeedEntry(LinkAQuery, <<"s">>, 33, None, None),
       FeedEntry(LinkTags, LongSummary, 34, None, None),
       FeedEntry(LinkB, <<"s">>, 35, None, None) >>

\* a section link, a short summary and an article
FeedSection ==
    << FeedEntry(LinkTags, LongSummary, 40, None, None),
       FeedEntry(LinkB, PaddedSummary, 41, None, None),
       FeedEntry(LinkAParen, LongSummary, 42, None, None) >>

Responses ==
    {[error |-> error, entries |-> <<>>] : error \in FetchErrors}
    \cup {[error |-> NoneStr, entries |-> entries] :
              entries \in {<<>>, FeedThree, FeedMixed, FeedSix, FeedSection}}

\* the times of the calls: later than one lookback window after the epoch
FeedNows == {Day + UnitsPerHour + k : k \in 0..MaxTime}

FeedInit ==
    /\ channels = [i \in 1..NumChannels |->
                        IF i = 1 THEN [BaseChannel EXCEPT !.content_strategy = "news"]
                        ELSE BaseChannel]
    /\ image_generator = TRUE
    /\ \E now \in FeedNows, recent_links \in {{}, {LinkA}} :
          \E responses \in [1..NumSources -> Responses] :
             news = NewsCall(now, responses, recent_links)
    /\ history = {}
    /\ clock = 0
    /\ pc = [s \in Slots |-> "idle"]
    /\ tnow = [s \in Slots |-> 0]
    /\ idx = [s \in Slots |-> 0]
    /\ pending = [s \in Slots |-> {}]
    /\ run = [s \in Slots |-> NoRun]
    /\ evaluated = [s \in Slots |-> {}]
    /\ ran = [s \in Slots |-> <<>>]
    /\ decision = NoDecision
    /\ delivered = {}

\* the fetch task of source k completes
FetchDone(k) ==
    /\ news.stage = "fetching"
    /\ news.results[k].status = "pending"
    /\ news' = [news EXCEPT !.results[k] = fetch_task(news.responses[k], news.now),
                            !.order = Append(@, k)]
    /\ UNCHANGED <<channels, image_generator, history, clock, pc, tnow, idx, pending,
                   run, evaluated, ran, decision, delivered>>

\* gather hands the results over and the loop assembles the candidates
Collect ==
    /\ news.stage = "fetching"
    /\ \A k \in 1..NumSources : news.results[k].status # "pending"
    /\ news' = IF ~return_exceptions /\ \E k \in 1..NumSources : news.results[k].status = "raised"
               THEN [news EXCEPT !.stage = "raised"]
               ELSE [news EXCEPT !.stage = "collected",
                                 !.candidates = extend_all(gather(news.results, news.order), 1)]
    /\ UNCHANGED <<channels, image_generator, history, clock, pc, tnow, idx, pending,
                   run, evaluated, ran, decision, delivered>>

\* generate() drops the links seen recently and picks a candidate
Select ==
    /\ news.stage = "collected"
    /\ news' = [news EXCEPT !.stage = "picked",
                            !.order = <<>>,
                            !.left = dedup(news.candidates, seen_links_of(news.recent_links),
                                           not_seen(news.candidates, seen_links_of(news.recent_links))),
                            !.result = news_generate(news.candidates, news.now, news.recent_links),
                            !.calls = 1]
    /\ UNCHANGED <<channels, image_generator, history, clock, pc, tnow, idx, pending,
                   run, evaluated, ran, decision, delivered>>

\* a later call of _pick_best_candidate with the same candidate list
PickAgain ==
    /\ news.stage = "picked"
    /\ news.calls = 1
    /\ news.left # <<>>
    /\ \E t \in FeedNows :
          news' = [news EXCEPT !.calls = @ + 1,
                               !.again_now = t,
                               !.again = _pick_best_candidate(news.left, t)]
    /\ UNCHANGED <<channels, image_generator, history, clock, pc, tnow, idx, pending,
                   run, evaluated, ran, decision, delivered>>

FeedNext ==
    \/ \E k \in 1..NumSources : FetchDone(k)
    \/ Collect
    \/ Select
    \/ PickAgain

FeedSpec == FeedInit /\ [][FeedNext]_vars

(***************************************************************************)
(* Link normalization on its own: _normalize_link applied to a link, to a  *)
(* second link that differs from it in the trailing slash of the path, in  *)
(* the case of scheme and host, and in query and fragment, and to its own  *)
(* result.                                                                 *)
(***************************************************************************)
\* paths without trailing slash; ";" starts the parameters of a segment
LinkPaths ==
    { <<>>, <<"/", "a">>, <<"/", "a", "/", "b">>,
      <<"/", "a", ";", "p">>, <<"/", ";", "a">> }

MakeLink(scheme, host, path, slash, tail) ==
    scheme \o <<":", "/", "/">> \o host \o path \o (IF slash THEN <<"/">> ELSE <<>>) \o tail

LinksOf(path) ==
    {MakeLink(scheme, host, path, slash, tail) :
        scheme \in {<<"h", "t", "t", "p">>, <<"H", "T", "T", "P">>},
        host \in {<<"e">>, <<"E">>},
        slash \in BOOLEAN,
        tail \in {<<>>, <<"?", "q">>, <<"#", "f">>}}

\* a link and a second one to normalize, nothing normalized yet
LinkCall(link, other) ==
    [stage |-> "link", link |-> link, other |-> other,
     once |-> <<>>, other_once |-> <<>>, twice |-> <<>>]

LinkInit ==
    /\ channels = [i \in 1..NumChannels |-> BaseChannel]
    /\ image_generator = TRUE
    /\ \E path \in LinkPaths :
          \E link \in LinksOf(path), other \in LinksOf(path) :
             news = LinkCall(link, other)
    /\ history = {}
    /\ clock = 0
    /\ pc = [s \in Slots |-> "idle"]
    /\ tnow = [s \in Slots |-> 0]
    /\ idx = [s \in Slots |-> 0]
    /\ pending = [s \in Slots |-> {}]
    /\ run = [s \in Slots |-> NoRun]
    /\ evaluated = [s \in Slots |-> {}]
    /\ ran = [s \in Slots |-> <<>>]
    /\ decision = NoDecision
    /\ delivered = {}

\* both links are normalized
Normalize ==
    /\ news.stage = "link"
    /\ news' = [news EXCEPT !.stage = "once",
                            !.once = _normalize_link(news.link),
                            !.other_once = _normalize_link(news.other)]
    /\ UNCHANGED <<channels, image_generator, history, clock, pc, tnow, idx, pending,
                   run, evaluated, ran, decision, delivered>>

\* the normalized link is normalized again
NormalizeAgain ==
    /\ news.stage = "once"
    /\ news' = [news EXCEPT !.stage = "twice", !.twice = _normalize_link(news.once)]
    /\ UNCHANGED <<channels, image_generator, history, clock, pc, tnow, idx, pending,
                   run, evaluated, ran, decision, delivered>>

LinkNext == Normalize \/ NormalizeAgain

LinkSpec == LinkInit /\ [][LinkNext]_vars

(***************************************************************************)
(* The manual trigger: a trigger-post request runs create_and_send_post    *)
(* in its own session, next to the scheduler's ticks.                      *)
(***************************************************************************)
\* the session of the request, beside those of the ticks
RequestSlot == MaxSlots + 1

\* what create_and_send_post hands to its caller: it is declared `-> None`
\* and has no return with a value
create_and_send_post_returns == NoneStr

\* the trigger-post request: its query parameter, the scheduler ticks running
\* when it arrived, and its response
TriggerCall(force, during, status, committed) ==
    [stage |-> IF status = NoneStr THEN "trigger" ELSE "responded",
     force |-> force, during |-> during, status |-> status, committed |-> committed]

TriggerInit ==
    /\ \E cfg \in { BaseChannel,
                     [BaseChannel EXCEPT !.posting_frequency_per_day = HoursPerDay,
                                         !.generate_images = TRUE] } :
          channels = [i \in 1..NumChannels |->
                         IF i = 1 THEN cfg
                         ELSE [BaseChannel EXCEPT !.auto_post_enabled = FALSE]]
    /\ image_generator = TRUE
    /\ news = NoNews
    /\ history \in {{}, SeedSent}
    /\ clock = 0
    /\ pc = [s \in Slots \cup {RequestSlot} |-> "idle"]
    /\ tnow = [s \in Slots \cup {RequestSlot} |-> 0]
    /\ idx = [s \in Slots \cup {RequestSlot} |-> 0]
    /\ pending = [s \in Slots \cup {RequestSlot} |-> {}]
    /\ run = [s \in Slots \cup {RequestSlot} |-> NoRun]
    /\ evaluated = [s \in Slots \cup {RequestSlot} |-> {}]
    /\ ran = [s \in Slots \cup {RequestSlot} |-> <<>>]
    /\ decision = NoDecision
    /\ delivered = {}

\* trigger_post up to the call of create_and_send_post (lines 88-99): now is
\* read, and without force should_post decides on the rows the request's
\* session sees
TriggerRequest(i, force) ==
    /\ news.stage = "none"
    /\ clock < MaxTime
    /\ clock' = clock + 1
    /\ tnow' = [tnow EXCEPT ![RequestSlot] = clock + 1]
    /\ LET c == Chan(i)
           during == {tnow[s] : s \in RunningSlots}
       IN  IF ~force /\ should_post_raises(c)
           THEN /\ news' = TriggerCall(force, during, "500", FALSE)
                /\ UNCHANGED <<pc, run>>
           ELSE IF ~force /\ ~should_post(c, clock + 1, Visible(RequestSlot))
           THEN /\ news' = TriggerCall(force, during, "skipped", FALSE)
                /\ UNCHANGED <<pc, run>>
           ELSE /\ news' = TriggerCall(force, during, NoneStr, FALSE)
                /\ pc' = [pc EXCEPT ![RequestSlot] = "generate"]
                /\ run' = [run EXCEPT ![RequestSlot] =
                                [NoRun EXCEPT !.state = "active", !.ch = i]]
    /\ UNCHANGED <<channels, image_generator, history, idx, pending, evaluated, ran,
                   decision, delivered>>

\* trigger_post after the call (lines 99-109): an exception of the call, or of
\* unpacking its result into content and image_url, is answered with a
\* rollback and 502; otherwise the session is committed
TriggerRespond ==
    /\ news.stage = "trigger"
    /\ pc[RequestSlot] \in {"loop", "aborted"}
    /\ pc' = [pc EXCEPT ![RequestSlot] = "responded"]
    /\ pending' = [pending EXCEPT ![RequestSlot] = {}]
    /\ IF pc[RequestSlot] = "aborted" \/ create_and_send_post_returns = NoneStr
       THEN /\ news' = TriggerCall(news.force, news.during, "502", FALSE)
            /\ UNCHANGED history
       ELSE /\ news' = TriggerCall(news.force, news.during,
                                   IF run[RequestSlot].content = <<>> THEN "skipped" ELSE "sent",
                                   TRUE)
            /\ history' = history \cup pending[RequestSlot]
    /\ UNCHANGED <<channels, image_generator, clock, tnow, idx, run, evaluated, ran,
                   decision, delivered>>

TriggerNext ==
    \/ TimerFire
    \/ TimerSkip
    \/ \E s \in Slots :
          \/ LoopSkip(s)
          \/ Evaluate(s)
          \/ Commit(s)
    \/ \E s \in Slots \cup {RequestSlot} :
          \/ Generate(s)
          \/ Image(s)
          \/ Send(s)
          \/ RecordSent(s)
          \/ RecordFailed(s)
    \/ \E i \in 1..NumChannels, force \in BOOLEAN : TriggerRequest(i, force)
    \/ TriggerRespond

TriggerSpec == TriggerInit /\ [][TriggerNext]_vars

(***************************************************************************)
(* Properties                                                              *)
(***************************************************************************)
Ended(s) == pc[s] \in {"done", "aborted"}

RunEnded(s) == run[s].state \in {"returned", "raised"}

WhitespaceOnly(content) == \A i \in 1..Len(content) : content[i] \in Whitespace

\* inclusive window membership of the channel-local time of day
WindowOpen(c, t) ==
    LET x == (t + utcoffset(c.timezone) * UnitsPerHour) % Day
        a == c.posting_window_start
        b == c.posting_window_end
    IN  \/ a = None
        \/ b = None
        \/ (a <= b /\ a <= x /\ x <= b)
        \/ (a > b /\ (x >= a \/ x <= b))

SentTimes(cid) == {p.sent_at : p \in {q \in history : q.channel_id = cid /\ q.status = "sent"}}

Decided ==
    decision.called /\ decision.call = "should_post" /\ decision.result \in {"true", "false"}

\* the window check of should_post for channel c at time t
WindowPasses(c, t) ==
    _in_window(astimezone(t, c.timezone), c.posting_window_start, c.posting_window_end)

Abs(n) == IF n < 0 THEN 0 - n ELSE n

\* m is 24h/f rounded to the nearest clock unit, ties to the even unit
NearestUnit(m, f) ==
    /\ 2 * Abs(m * f - Day) <= f
    /\ (2 * Abs(m * f - Day) = f => m % 2 = 0)

\* C1: an exception of one channel is contained in run_tick: the tick is not
\* aborted and, when it has ended, every auto-post-enabled channel was evaluated.
C1_ChannelFailureContained ==
    \A s \in Slots :
        /\ pc[s] # "aborted"
        /\ (pc[s] = "done" =>
               \A i \in 1..NumChannels : Chan(i).auto_post_enabled => i \in evaluated[s])

\* C2: a run of create_and_send_post whose generator returned non-blank content
\* has written exactly one history record when it ends.
C2_ExactlyOneHistoryWrite ==
    \A s \in Slots :
        (RunEnded(s) /\ run[s].generated /\ ~WhitespaceOnly(run[s].content))
            => run[s].writes = 1

\* C3: when the publisher call raised, the run has written exactly one record,
\* with status failed and the non-empty error text, and re-raised that exception.
C3_FailedDeliveryRecorded ==
    \A s \in Slots :
        (RunEnded(s) /\ run[s].send_exc # NoExc) =>
            /\ run[s].writes = 1
            /\ \E p \in run[s].written :
                  /\ p.channel_id = run[s].ch
                  /\ p.status = "failed"
                  /\ p.error # NoneStr /\ p.error # ""
                  /\ p.error = run[s].send_exc.msg
            /\ run[s].state = "raised"
            /\ run[s].exc = run[s].send_exc

\* C4: once the tick in which a delivery failed has ended, the failed record of
\* that delivery is part of the committed history.
C4_FailedRecordCommitted ==
    \A s \in Slots :
        (Ended(s) /\ run[s].send_exc # NoExc) =>
            \E p \in history :
                /\ p.channel_id = run[s].ch
                /\ p.status = "failed"
                /\ p.scheduled_for = tnow[s]

\* C5: blank content (empty or whitespace only) is a skip: the run returns
\* without raising, with no publisher call, no image call and no history write.
C5_BlankContentIsSkip ==
    \A s \in Slots :
        (run[s].generated /\ WhitespaceOnly(run[s].content)) =>
            /\ run[s].state = "returned"
            /\ run[s].sends = 0
            /\ run[s].images = 0
            /\ run[s].writes = 0

C5_Witness ==
    \E s \in Slots :
        /\ run[s].generated
        /\ run[s].content = <<" ">>
        /\ run[s].state = "returned"
        /\ pc[s] = "loop"

\* C6: after a successful delivery the run has written a record with status
\* sent, the content, scheduled_for = now and sent_at = now, and the channel's
\* last sent time seen through the session is now.
C6_SentRecordWritten ==
    \A s \in Slots :
        (RunEnded(s) /\ run[s].send_ok) =>
            /\ \E p \in run[s].written :
                  /\ p.channel_id = run[s].ch
                  /\ p.status = "sent"
                  /\ p.content = run[s].content
                  /\ p.scheduled_for = tnow[s]
                  /\ p.sent_at = tnow[s]
            /\ (Running(s) => last_sent_post_time(Visible(s), run[s].ch) = tnow[s])

\* The interval of should_post is timedelta(hours=24/f): 24h/f rounded to the
\* timedelta resolution.  With microseconds, f = 13 gives 6646153846 us, less
\* than 24h/13 = 6646153846.15.. us; with UnitsPerHour = 2 the same rounding
\* down happens at f = 9 (48/9 = 5.33 -> 5).
\* C7 as stated: with f >= 1, the window open and the most recent sent post at
\* t0, should_post(t) is false for t0 < t < t0 + 24h/f and true at t = t0 + 24h/f.
C7_ExactBoundary ==
    Decided =>
        LET c == decision.channel
            f == c.posting_frequency_per_day
            t == decision.now
        IN  (f >= 1 /\ WindowPasses(c, t) /\ SentTimes(c.id) # {}) =>
                LET t0 == SetMax(SentTimes(c.id))
                IN  /\ (t0 < t /\ (t - t0) * f < Day => decision.result = "false")
                    /\ ((t - t0) * f = Day => decision.result = "true")

\* C7 amended: the same with the interval m = 24h/f rounded to the nearest
\* clock unit (ties to even): false for t0 < t < t0 + m, true at t = t0 + m.
C7_RoundedBoundary ==
    Decided =>
        LET c == decision.channel
            f == c.posting_frequency_per_day
            t == decision.now
        IN  (f >= 1 /\ WindowPasses(c, t) /\ SentTimes(c.id) # {}) =>
                LET t0 == SetMax(SentTimes(c.id))
                    m == CHOOSE k \in 0..Day : NearestUnit(k, f)
                IN  /\ (t0 < t /\ t - t0 < m => decision.result = "false")
                    /\ (t - t0 = m => decision.result = "true")

C7_Witness ==
    /\ decision.called
    /\ decision.result = "true"
    /\ Day % decision.channel.posting_frequency_per_day # 0
    /\ SentTimes(decision.channel.id) # {}
    /\ decision.now - SetMax(SentTimes(decision.channel.id)) = min_interval(decision.channel)

\* C8: the frequency check looks at sent posts only: with no sent post the
\* result is the window check alone, otherwise the window check and the distance
\* to the most recent sent post; failed posts have no influence.
C8_OnlySentPostsCount ==
    Decided =>
        LET c == decision.channel
            t == decision.now
            S == SentTimes(c.id)
            expected == /\ WindowPasses(c, t)
                        /\ \A x \in S : t - x >= min_interval(c)
        IN  decision.result = IF expected THEN "true" ELSE "false"

C8_Witness ==
    /\ decision.called
    /\ decision.result = "true"
    /\ SentTimes(decision.channel.id) = {}
    /\ \E p \in history :
          /\ p.channel_id = decision.channel.id
          /\ p.status = "failed"
          /\ decision.now - p.scheduled_for >= 0
          /\ decision.now - p.scheduled_for < min_interval(decision.channel)

\* C9: at most one run_tick is running at any time, so no two ticks are at a
\* delivery to the same destination together.
C9_TicksDoNotOverlap ==
    /\ Cardinality(RunningSlots) <= 1
    /\ \A s1, s2 \in Slots :
          (s1 # s2 /\ pc[s1] = "send" /\ pc[s2] = "send") =>
              Chan(run[s1].ch).telegram_channel_id # Chan(run[s2].ch).telegram_channel_id

C9_Witness ==
    \E s \in Slots : pc[s] = "send" /\ tnow[s] < clock

Count(seq, x) == Cardinality({k \in 1..Len(seq) : seq[k] = x})

\* C10: when a tick has ended, every auto-post-enabled channel for which
\* should_post is true had create_and_send_post called exactly once, in list
\* order, and no other channel had it called.
C10_FullEligibleSetProcessed ==
    \A s \in Slots :
        Ended(s) =>
            /\ \A i \in 1..NumChannels :
                  LET c == Chan(i)
                      eligible == /\ c.auto_post_enabled
                                  /\ ~should_post_raises(c)
                                  /\ should_post(c, tnow[s], history)
                  IN  Count(ran[s], i) = IF eligible THEN 1 ELSE 0
            /\ \A j, k \in 1..Len(ran[s]) : j < k => ran[s][j] < ran[s][k]

WindowCalled == decision.called /\ decision.call = "_in_window"

LocalTime(c, t) == (t + utcoffset(c.timezone) * UnitsPerHour) % Day

\* C11: for a window with start <= end, _in_window is true exactly when
\* start <= t <= end, both bounds inclusive.
C11_NonWrappingWindow ==
    WindowCalled =>
        LET c == decision.channel
            a == c.posting_window_start
            b == c.posting_window_end
            x == LocalTime(c, decision.now)
        IN  (a # None /\ b # None /\ a <= b) =>
                (decision.result = "true") = (a <= x /\ x <= b)

\* C12: for a window with start > end, _in_window is true exactly when
\* t >= start or t <= end.
C12_MidnightWrapWindow ==
    WindowCalled =>
        LET c == decision.channel
            a == c.posting_window_start
            b == c.posting_window_end
            x == LocalTime(c, decision.now)
        IN  (a # None /\ b # None /\ a > b) =>
                (decision.result = "true") = (x >= a \/ x <= b)

\* C13: with either window bound absent, _in_window is true at every time of
\* day and should_post is the frequency check alone.
C13_AbsentBoundAlwaysOpen ==
    LET c == decision.channel
        t == decision.now
        absent == c.posting_window_start = None \/ c.posting_window_end = None
        frequency == \A x \in SentTimes(c.id) : t - x >= min_interval(c)
    IN  /\ (WindowCalled /\ absent) => decision.result = "true"
        /\ (Decided /\ absent) => (decision.result = "true") = frequency

C13_Witness ==
    /\ Decided
    /\ decision.result = "true"
    /\ decision.channel.posting_window_start = None
    /\ decision.channel.posting_window_end # None
    /\ LocalTime(decision.channel, decision.now) > decision.channel.posting_window_end
    /\ SentTimes(decision.channel.id) # {}

\* a step in which run_tick calls should_post for the channel at idx[s]
ShouldPostStep(s) ==
    /\ pc[s] = "loop"
    /\ idx[s] <= NumChannels
    /\ Chan(idx[s]).auto_post_enabled
    /\ idx[s] \notin evaluated[s]
    /\ idx[s] \in evaluated'[s]

\* C14: a call of should_post leaves the history store (committed rows and
\* the rows of the open session), the channel configuration and the publisher
\* untouched, so should_post gives afterwards, for every channel and time,
\* what it gave before the call.
C14_ShouldPostNoMutation ==
    [][(\E s \in Slots : ShouldPostStep(s)) =>
          /\ history' = history
          /\ \A s \in Slots : ShouldPostStep(s) => pending'[s] = pending[s]
          /\ channels' = channels
          /\ delivered' = delivered
          /\ \A i \in 1..NumChannels, t \in 0..MaxTime, s \in Slots :
                (ShouldPostStep(s) /\ ~should_post_raises(Chan(i))) =>
                    should_post(WithId(channels'[i], i), t, history' \cup pending'[s])
                        = should_post(Chan(i), t, Visible(s))]_vars

C14_Witness ==
    /\ decision.called
    /\ decision.call = "should_post"
    /\ decision.result = "false"
    /\ history # {}
    /\ \E s \in Slots : pc[s] = "loop" /\ idx[s] > 1

\* C15: when the channel asks for an image and image generation raises, the
\* run still makes its one publisher call as send_message, writes its history
\* record, and the exception leaving the run, if any, is the delivery error.
C15_ImageFailureKeepsTextDelivery ==
    \A s \in Slots :
        (run[s].ch # 0 /\ RunEnded(s) /\ run[s].image_outcome = "raised") =>
            /\ Chan(run[s].ch).generate_images
            /\ run[s].sends = 1
            /\ run[s].send_call = "send_message"
            /\ run[s].writes = 1
            /\ run[s].exc \in {NoExc} \cup SendErrors

\* the channel of run s names a content strategy the registry does not hold
UnregisteredKey(s) == run[s].ch # 0 /\ strategy_name(Chan(run[s].ch)) \notin Registered

\* C16: a run for a channel whose strategy key is not registered calls the
\* first registered generator (the registry's default), raises no KeyError,
\* and with non-blank content goes on to its delivery call.
C16_UnregisteredStrategyFallsBack ==
    \A s \in Slots :
        (UnregisteredKey(s) /\ run[s].generates >= 1) =>
            /\ run[s].generator = registry[1]
            /\ run[s].exc.type # "KeyError"
            /\ (RunEnded(s) /\ run[s].generated /\ ~WhitespaceOnly(run[s].content)) =>
                    run[s].sends = 1

C16_Witness ==
    \E s \in Slots :
        /\ UnregisteredKey(s)
        /\ Chan(run[s].ch).content_strategy = "digest"
        /\ Len(registry) > 1
        /\ RunEnded(s)
        /\ run[s].generator = "placeholder"
        /\ run[s].sends = 1
        /\ run[s].send_ok

\* the run's generate() call raised
GeneratorRaised(s) == run[s].ch # 0 /\ run[s].generates >= 1 /\ ~run[s].generated

\* C17: when the generator raises, the run ends by raising that exception
\* and has made no image call, no publisher call and no history write.
C17_GeneratorFailureIsHard ==
    \A s \in Slots :
        (GeneratorRaised(s) /\ run[s].state # "active") =>
            /\ run[s].state = "raised"
            /\ run[s].exc \in GenerateRaises(run[s].generator)
            /\ run[s].images = 0
            /\ run[s].sends = 0
            /\ run[s].writes = 0
            /\ \A d \in delivered : ~(d.channel = run[s].ch /\ d.at = tnow[s])

C17_Witness ==
    \E s \in Slots :
        /\ GeneratorRaised(s)
        /\ run[s].state = "raised"
        /\ run[s].generator = "news"
        /\ run[s].exc = GeneratorError
        /\ pc[s] = "aborted"

\* C18: a run makes one generate() call and at most one publisher call,
\* whichever of send_photo and send_message it is, also when that call fails.
C18_OneSynthesisAtMostOneDelivery ==
    \A s \in Slots :
        /\ run[s].generates <= 1
        /\ run[s].sends <= 1
        /\ (run[s].ch # 0 /\ RunEnded(s)) => run[s].generates = 1
        /\ Cardinality({d \in delivered : d.channel = run[s].ch /\ d.at = tnow[s]}) <= 1

C18_Witness ==
    \E s \in Slots :
        /\ RunEnded(s)
        /\ run[s].generates = 1
        /\ run[s].sends = 1
        /\ run[s].send_call = "send_photo"
        /\ ~run[s].send_ok
        /\ run[s].send_exc \in SendErrors

GenerateCalled == decision.called /\ decision.call = "generate"

\* link occurs in content as a whole blank-delimited word
Embeds(content, link) ==
    \E k \in 1..Len(content) :
        /\ startswith(content, k, link)
        /\ (k = 1 \/ content[k - 1] \in Whitespace)
        /\ (k + Len(link) > Len(content) \/ content[k + Len(link)] \in Whitespace)

\* C19: the candidate the news generator chooses has a normalized link
\* different from the normalized form of every link embedded in the content
\* of the channel's 50 most recent history records.
C19_NoRepeatOfRecentLinks ==
    (GenerateCalled /\ decision.result = "digest") =>
        \A p \in decision.recent_posts : \A link \in NewsLinks :
            Embeds(p.content, link) =>
                _normalize_link(decision.chosen.link) # _normalize_link(link)

\* C20: with a non-empty set of seen links the chosen candidate's normalized
\* link is outside the set, and when all candidates are inside it the
\* generator returns empty content.
C20_SeenCandidatesExcluded ==
    GenerateCalled =>
        LET seen == seen_links_of(decision.recent_links)
            all_seen == \A k \in 1..Len(decision.candidates) :
                            _normalize_link(decision.candidates[k].link) \in seen
        IN  seen # {} =>
                /\ decision.result = "digest" =>
                        _normalize_link(decision.chosen.link) \notin seen
                /\ (decision.candidates # <<>> /\ all_seen) =>
                        (decision.result = "empty" /\ decision.content = <<>>)
                /\ (decision.candidates # <<>> /\ ~all_seen) => decision.result = "digest"

C20_Witness ==
    /\ GenerateCalled
    /\ Len(decision.candidates) >= 2
    /\ decision.recent_links # {}
    /\ \A k \in 1..Len(decision.candidates) :
            _normalize_link(decision.candidates[k].link) \in seen_links_of(decision.recent_links)
    /\ decision.result = "empty"

Collected == news.stage \in {"collected", "picked"}

Picked == news.stage = "picked"

Occurrences(seq, x) == Cardinality({j \in 1..Len(seq) : seq[j] = x})

\* how often candidate c is among what the sources 1..k that succeeded returned
RECURSIVE Contributed(_, _)
Contributed(c, k) ==
    IF k = 0 THEN 0
    ELSE (IF news.responses[k].error # NoneStr THEN 0
          ELSE Occurrences(news.results[k].candidates, c))
         + Contributed(c, k - 1)

Offered == UNION {Range(news.results[k].candidates) : k \in 1..NumSources}

\* C21: a failing source contributes no candidate and does not abort the
\* aggregate: _collect_candidates never raises, and it returns exactly the
\* candidates of the sources that succeeded.
C21_FailingSourceContributesNothing ==
    /\ news.stage # "raised"
    /\ Collected =>
          \A c \in Offered \cup Range(news.candidates) :
              Occurrences(news.candidates, c) = Contributed(c, NumSources)

C21_Witness ==
    /\ news.stage = "collected"
    /\ \E k \in 1..NumSources : news.responses[k].error = "ReadTimeout"
    /\ \E k \in 1..NumSources : news.responses[k].entries = FeedThree
    /\ Len(news.candidates) = 3

\* the candidates of sources k..NumSources in source-list order, from the
\* responses alone
RECURSIVE InSourceOrder(_)
InSourceOrder(k) ==
    IF k > NumSources THEN <<>>
    ELSE (IF news.responses[k].error # NoneStr THEN <<>>
          ELSE _fetch_feed(news.responses[k].entries, cutoff_of(news.now), news.now))
         \o InSourceOrder(k + 1)

\* C22: the fetches complete in any order, but the candidate list is
\* assembled in source-list order, and the selected candidate is a function
\* of the feed contents, the seed time and the excluded links only.
C22_SourceOrderWhateverCompletionOrder ==
    /\ Collected => news.candidates = InSourceOrder(1)
    /\ Picked => news.result = news_generate(InSourceOrder(1), news.now, news.recent_links)

C22_Witness ==
    /\ news.stage = "collected"
    /\ news.order[1] # 1
    /\ news.results[1].candidates # <<>>
    /\ news.results[news.order[1]].candidates # <<>>
    /\ news.results[1].candidates # news.results[news.order[1]].candidates

\* the entries a source is allowed to contribute: the first
\* max_entries_per_source of its feed
Allowed(k) ==
    {j \in 1..Len(news.responses[k].entries) : j <= max_entries_per_source}

Returned(k) == news.results[k].status = "returned"

\* the published timestamp of entry j of source k: its first usable time
\* field, else the time of the fetch
PublishedAt(k, j) == _extract_datetime(news.responses[k].entries[j], news.now)

InLookback(k, j) == PublishedAt(k, j) >= news.now - lookback_hours * UnitsPerHour

\* C23: no candidate older than the cutoff reaches the selector, and every
\* in-lookback entry among those a source may contribute is kept.
C23_CutoffFilter ==
    /\ \A k \in 1..NumSources : Returned(k) =>
          /\ \A c \in Range(news.results[k].candidates) :
                c.published_at >= news.now - lookback_hours * UnitsPerHour
          /\ Len(news.results[k].candidates)
                = Cardinality({j \in Allowed(k) : InLookback(k, j)})
          /\ \A j \in Allowed(k) : InLookback(k, j) =>
                \E c \in Range(news.results[k].candidates) :
                    c.link = news.responses[k].entries[j].link
    /\ Collected => \A c \in Range(news.candidates) :
                        c.published_at >= news.now - lookback_hours * UnitsPerHour

\* one source had an entry older than the cutoff and one exactly at it
C23_Witness ==
    /\ Collected
    /\ \E k \in 1..NumSources :
          /\ Returned(k)
          /\ \E j \in Allowed(k) : ~InLookback(k, j)
          /\ \E j \in Allowed(k) :
                /\ PublishedAt(k, j) = news.now - lookback_hours * UnitsPerHour
                /\ \E c \in Range(news.candidates) :
                      c.link = news.responses[k].entries[j].link

\* how many of the collected candidates carry a link of source k's feed
FromSource(k) ==
    Cardinality({j \in 1..Len(news.candidates) :
                    \E e \in Range(news.responses[k].entries) : e.link = news.candidates[j].link})

\* C24: a source contributes at most max_entries_per_source candidates,
\* however many entries its feed has.
C24_PerSourceCap ==
    /\ \A k \in 1..NumSources : Len(news.results[k].candidates) <= max_entries_per_source
    /\ Collected => Len(news.candidates) <= NumSources * max_entries_per_source
    /\ Collected =>
          \A k \in 1..NumSources :
              (\A j \in 1..NumSources : j # k => news.results[j].candidates = <<>>)
                  => FromSource(k) <= max_entries_per_source

\* a feed with more in-lookback entries than the cap was collected alone
C24_Witness ==
    /\ Collected
    /\ \E k \in 1..NumSources :
          /\ Returned(k)
          /\ Cardinality({j \in 1..Len(news.responses[k].entries) : InLookback(k, j)})
                > max_entries_per_source
          /\ Len(news.results[k].candidates) = max_entries_per_source
          /\ Len(news.candidates) = max_entries_per_source

\* entry e carries no published/updated/created time the code can use
NoTimestamp(e) ==
    \A value \in {e.published_parsed, e.updated_parsed, e.created_parsed} :
        value \in {None, BadTime}

\* C25: an entry without usable timestamp is dated at the time of the
\* fetch, so the cutoff never drops it, and every candidate has a timestamp.
C25_MissingTimestampFallsBackToNow ==
    /\ \A k \in 1..NumSources : Returned(k) =>
          /\ \A j \in Allowed(k) :
                NoTimestamp(news.responses[k].entries[j]) =>
                    \E c \in Range(news.results[k].candidates) :
                        /\ c.link = news.responses[k].entries[j].link
                        /\ c.published_at = news.now
          /\ \A c \in Range(news.results[k].candidates) : c.published_at >= 0
    /\ Collected => \A c \in Range(news.candidates) : c.published_at >= 0

C25_Witness ==
    /\ Collected
    /\ \E k \in 1..NumSources :
          /\ Returned(k)
          /\ \E j \in Allowed(k) :
                /\ NoTimestamp(news.responses[k].entries[j])
                /\ \E c \in Range(news.candidates) :
                      /\ c.link = news.responses[k].entries[j].link
                      /\ c.published_at = news.now

PickedAgain == news.stage = "picked" /\ news.calls > 1

\* the two calls were seeded with the same whole second
SameSeed == news.again_now \div UnitsPerHour = news.now \div UnitsPerHour

Newer(c) ==
    Cardinality({j \in 1..Len(news.left) : news.left[j].published_at > c.published_at})

\* C27: a non-empty candidate list always yields a candidate, and the
\* chosen one is among the selection_pool_size newest of those that
\* survived dedup.
C27_ChosenFromNewestPool ==
    /\ (Picked /\ news.left # <<>>) =>
          /\ news.result.kind = "digest"
          /\ news.result.chosen \in Range(news.left)
          /\ Newer(news.result.chosen) < selection_pool_size
    /\ PickedAgain =>
          /\ news.again \in Range(news.left)
          /\ Newer(news.again) < selection_pool_size

\* more candidates than the pool holds survived dedup
C27_Witness ==
    /\ Picked
    /\ Len(news.left) > selection_pool_size
    /\ news.result.chosen \in Range(news.left)
    /\ \E c \in Range(news.left) : Newer(c) >= selection_pool_size

\* the pool: the selection_pool_size newest of the candidates left
TopPool ==
    SubSeq(sorted_by_published(news.left), 1,
           IF Len(news.left) < selection_pool_size THEN Len(news.left) ELSE selection_pool_size)

\* a squashed summary of at least MinSummaryLen characters and a link that
\* is no section or listing link
ArticleLike(c) ==
    /\ Len(_squash_spaces(c.summary)) >= MinSummaryLen
    /\ ~_looks_like_section_link(c.link)

\* C28: when a pool member is article-like the chosen candidate is
\* article-like; when none is, the choice comes from the whole pool.
C28_ArticlePreference ==
    (Picked /\ news.left # <<>>) =>
        /\ (\E c \in Range(TopPool) : ArticleLike(c)) => ArticleLike(news.result.chosen)
        /\ news.result.chosen \in Range(TopPool)
        /\ PickedAgain =>
              /\ (\E c \in Range(TopPool) : ArticleLike(c)) => ArticleLike(news.again)
              /\ news.again \in Range(TopPool)

\* a pool of article-like members and of others: one whose summary is long
\* only before squashing, and one with a section link
C28_Witness ==
    /\ Picked
    /\ Len(news.left) > 1
    /\ \E c \in Range(TopPool) : ArticleLike(c)
    /\ \E c \in Range(TopPool) : ~ArticleLike(c) /\ Len(c.summary) >= MinSummaryLen
    /\ \E c \in Range(TopPool) : _looks_like_section_link(c.link)
    /\ ArticleLike(news.result.chosen)

\* C29: normalizing a normalized link again gives the same link.
C29_NormalizeIdempotent ==
    news.stage = "twice" => news.twice = news.once

\* C30: two links with a host that differ only in the trailing slash of the
\* path, in the case of scheme or host, or in query and fragment normalize
\* to the same string.
C30_VariantsNormalizeAlike ==
    news.stage \in {"once", "twice"} => news.once = news.other_once

\* the field rule of a history record: status sent or failed, sent_at exactly
\* with sent, error exactly with failed
SentOrFailed(p) ==
    /\ p.status \in {"sent", "failed"}
    /\ (p.sent_at # None) <=> (p.status = "sent")
    /\ (p.error # NoneStr) <=> (p.status = "failed")

DeliveredBy(s) == {d \in delivered : d.at = tnow[s]}

\* C32: once a tick has ended, every message it delivered has a sent record
\* of its channel in the committed history.
C32_DeliveredImpliesRecorded ==
    \A s \in Slots :
        Ended(s) =>
            \A d \in DeliveredBy(s) :
                \E p \in history :
                    /\ p.channel_id = d.channel
                    /\ p.status = "sent"
                    /\ p.sent_at = d.at

\* C33: two deliveries that ticks made to the same channel are at least the
\* channel's minimum interval apart.
C33_MinimumSpacingAcrossTicks ==
    \A d1, d2 \in delivered :
        (d1.channel = d2.channel /\ d1.at < d2.at) =>
            d2.at - d1.at >= min_interval(Chan(d1.channel))

\* the request went through the posting conditions and has delivered
TriggerDelivered == {d \in delivered : d.at = tnow[RequestSlot]}

\* C34: a trigger-post request without force that arrived while a scheduler
\* tick was running and the tick do not both deliver to the same channel
\* within the channel's minimum interval.
C34_TriggerAndTickDoNotBothDeliver ==
    (news.stage # "none" /\ ~news.force) =>
        \A d1 \in TriggerDelivered : \A d2 \in delivered :
            (d2.at \in news.during /\ d2.channel = d1.channel) =>
                Abs(d1.at - d2.at) >= min_interval(Chan(d1.channel))

\* C35: a request whose delivery succeeded is answered with status sent and
\* its session is committed with the sent record; a rollback with an error
\* answer happens only when nothing was delivered.
C35_TriggerDeliveredIsCommitted ==
    news.stage = "responded" =>
        /\ TriggerDelivered # {} =>
              /\ news.status = "sent"
              /\ news.committed
              /\ \E p \in history :
                    /\ p.channel_id = run[RequestSlot].ch
                    /\ p.status = "sent"
                    /\ p.sent_at = tnow[RequestSlot]
        /\ news.status = "502" => TriggerDelivered = {}

====
